---- MODULE Spec2Model ----
(***************************************************************************)
(* Realtime client synchronization core of the support-chat frontend:      *)
(*   - the connection manager   (hooks/useWebSocket, in config.ts)         *)
(*   - the customer view        (components/customer/CustomerChat.tsx)     *)
(*   - the admin active view    (components/admin/ActiveChats.tsx, two     *)
(*                               revisions of it are in the sources)       *)
(*   - the admin pending view   (components/admin/PendingChats.tsx)        *)
(* Each component has a specification of its own over the variables it     *)
(* owns; the variables of the other components stay unchanged.             *)
(***************************************************************************)
EXTENDS Integers, Sequences, FiniteSets, Bags, TLC

(***************************************************************************)
(* Bounds of the model and program constants                               *)
(***************************************************************************)
\* sockets one manager may create in a run
MaxSocks == 2
\* granularity of the timer clock of the connection manager, in ms
WsTickMs == 1000
\* options.reconnectMs default
ReconnectMsDefault == 3000
\* a second value a caller may configure
ReconnectMsOther == 1000
\* sockets of a run in which the effect runs again
MaxRerunSocks == 3

\* POST requests of one view in flight
MaxPosts == 1
\* message-list requests of one view in flight
MaxMsgFetches == 2
\* Date.now() when the view mounts, the clock's step in ms, and its steps
NowStart == 1000
TickMs == 500
MaxTicks == 1
\* setLogoutCountdown(10)
LogoutCountdownStart == 10
\* ensureChatVisible: now - lastChatsRefreshRef.current < 500
DebounceMs == 500
\* window.setTimeout(..., 1000) of the countdown effect
LogoutStepMs == 1000
\* the step of the customer's clock in ms, its steps, and the
\* session_completed events at different times
CustTickMs == 1000
MaxCustTicks == 12
MaxCompleted == 2

\* messages of the larger fixture that the ordering is checked on
MaxOrderMsgs == 4
\* calls of sendJson in a run
MaxSends == 1
\* inbound frames in a run
MaxFrames == 2
\* list requests in flight: of the pending view, and of the active view
\* when the filter changes
MaxListFetches == 2

Tokens == {"t1", "t2"}
NoToken == "none"

VARIABLES
  \* ---- connection manager (useWebSocket) ----
  phase,              \* lifecycle of the component that calls the hook
  enabled,            \* options.enabled at the last render
  reconnectMs,        \* options.reconnectMs at the last render
  token,              \* localStorage.getItem('token'), NoToken when absent
  socks,              \* every WebSocket connect() created, in creation order
  wsRef,              \* wsRef.current: 0 is null, else an index of socks
  reconnectTimerRef,  \* reconnectTimerRef.current: 0 is null, else a timer id
  timers,             \* window timers that are pending
  timerSeq,           \* timer ids handed out by window.setTimeout so far
  onOpenRef,          \* onOpenRef.current: the chat type its handshake subscribes to
  \* ---- connection manager: observations ----
  sendLog,            \* the calls of sendJson: payload and returned value
  received,           \* the frames the sockets received, in receipt order
  delivered,          \* the values onMessageRef.current was called with, in order
  lost,               \* a channel was lost and neither connect() nor the cleanup ran since
  idleAt,             \* Len(socks) when connect() last found no token, -1 once opened again
  \* ---- environment of a view: clock and server ----
  now,                \* Date.now()
  srvMsgs,            \* ids of the messages the server has stored
  srvSess,            \* per session: "ai" or "agent" (both active), or "pending"
  \* ---- the page the router shows ----
  page,               \* "none" before a page is mounted
  messages,           \* the mounted page's useState<Message[]>
  posts,              \* its POST /api/chats/messages requests in flight
  \* ---- customer view (CustomerChat) ----
  sessionId,          \* useState<string | null>, 0 is null
  loading,            \* useState(true)
  error,              \* useState<string | null>: TRUE when a message is set
  chatEnded,          \* useState(false)
  logoutCountdown,    \* useState<number | null>, -1 is null
  logoutTimer,        \* the countdown effect's window.setTimeout: ms left, -1 when none
  initFetch,          \* the GET /api/chats/session request of the init effect
  \* ---- admin view (ActiveChats) ----
  chats,              \* useState<ChatSession[]>
  selectedChat,       \* useState<ChatSession | null>: its id, 0 is null
  loadingChats,       \* useState(false)
  loadingMessages,    \* useState(false)
  lastChatsRefreshRef, \* useRef(0)
  listFetches,        \* GET /api/admin/chats/active requests in flight
  msgFetches,         \* GET /api/chats/messages/:id requests in flight
  \* ---- observations ----
  resyncLog,          \* Date.now() of the last two fetchChats of ensureChatVisible
  evicted,            \* sessions a status event removed, not active again since
  unsynced            \* sessions a delta was dropped for, not listed or asked for since

wsObsVars == <<sendLog, received, delivered, lost, idleAt>>

wsVars == <<phase, enabled, reconnectMs, token, socks, wsRef,
            reconnectTimerRef, timers, timerSeq, onOpenRef, wsObsVars>>

envVars == <<now, srvMsgs, srvSess>>

pageVars == <<page, messages, posts>>

custVars == <<sessionId, loading, error, chatEnded, logoutCountdown, logoutTimer,
             initFetch>>

actVars == <<chats, selectedChat, loadingChats, loadingMessages,
             lastChatsRefreshRef, listFetches, msgFetches>>

obsVars == <<resyncLog, evicted, unsynced>>

vars == <<wsVars, envVars, pageVars, custVars, actVars, obsVars>>

\* what the connection manager, the customer view, the admin view leave alone
nonWsVars == <<envVars, pageVars, custVars, actVars, obsVars>>
nonCustVars == <<wsVars, actVars, obsVars>>
nonActVars == <<wsVars, custVars>>

(***************************************************************************)
(* Connection manager: useWebSocket                                        *)
(***************************************************************************)
Live == {"CONNECTING", "OPEN"}

\* options.onOpen of the callers: CustomerChat passes none ("none"), ActiveChats
\* and PendingChats subscribe to their chat type.
OnOpens == {"none", "active", "pending"}

\* JSON.stringify(v): the text of a frame that holds v.
JSONstringify(v) == <<"json", v>>

\* A frame whose text is not JSON.
Garbage == <<"text", "garbage">>

\* JSON.parse(f) throws a SyntaxError.
ParseThrows(f) == f[1] # "json"

\* JSON.parse(f), when it does not throw.
JSONparse(f) == f[2]

\* The handshake of the admin views' onOpen.
SubscribeChats(ct) == [type |-> "subscribe_chats", data |-> [chat_type |-> ct]]

\* The refs and timers the hook's closures read and write, as one value.
WsState ==
  [socks |-> socks, wsRef |-> wsRef, ref |-> reconnectTimerRef,
   timers |-> timers, seq |-> timerSeq]

\* window.clearTimeout(id): a fired, cleared or null id clears nothing.
clearTimeout(tms, id) == {t \in tms : t.id # id}

\* WebSocket.close(): starts the closing handshake of a connecting or open
\* socket; the close event follows later. No effect on a closing or closed one.
SockClose(ss, i) ==
  IF i # 0 /\ ss[i].state \in Live
  THEN [ss EXCEPT ![i].state = "CLOSING"]
  ELSE ss

\* connect(), in the closure of an effect run with (en, ms).
connect(st, en, ms) ==
  IF token = NoToken
  THEN st
  ELSE [st EXCEPT
          !.socks = Append(@, [state |-> "CONNECTING", token |-> token,
                              en |-> en, ms |-> ms, out |-> <<>>]),
          !.wsRef = Len(st.socks) + 1]

\* ws.onopen of socket i, calling the handshake only on the first socket.
onopenFirstOnly(st, i, oo) ==
  IF oo = "none" \/ i > 1
  THEN st
  ELSE [st EXCEPT !.socks[i].out = Append(@, JSONstringify(SubscribeChats(oo)))]

\* ws.onopen of socket i: onOpenRef.current?.(ws), and the caller's onOpen
\* sends its handshake on ws.
onopen(st, i, oo) ==
  IF oo = "none"
  THEN st
  ELSE [st EXCEPT !.socks[i].out = Append(@, JSONstringify(SubscribeChats(oo)))]

\* ws.onclose of socket i, without the clearTimeout of the previous timer.
oncloseKeepsOldTimer(st, i) ==
  LET s  == st.socks[i]
      id == st.seq + 1
  IN IF ~s.en
     THEN st
     ELSE [st EXCEPT
             !.timers = @ \cup {[id |-> id, left |-> s.ms, en |-> s.en, ms |-> s.ms]},
             !.ref = id,
             !.seq = id]

\* ws.onclose of socket i, giving up after the first reconnection.
oncloseGivesUp(st, i) ==
  LET s  == st.socks[i]
      id == st.seq + 1
  IN IF ~s.en \/ st.seq >= 1
     THEN st
     ELSE [st EXCEPT
             !.timers = clearTimeout(@, st.ref)
                          \cup {[id |-> id, left |-> s.ms, en |-> s.en, ms |-> s.ms]},
             !.ref = id,
             !.seq = id]

\* ws.onclose of socket i: `enabled` and `reconnectMs` are those of the
\* closure that created the socket.
onclose(st, i) ==
  LET s  == st.socks[i]
      id == st.seq + 1
  IN IF ~s.en
     THEN st
     ELSE [st EXCEPT
             !.timers = clearTimeout(@, st.ref)
                          \cup {[id |-> id, left |-> s.ms, en |-> s.en, ms |-> s.ms]},
             !.ref = id,
             !.seq = id]

\* The effect's cleanup.
cleanup(st) ==
  [st EXCEPT
     !.timers = clearTimeout(@, st.ref),
     !.socks = SockClose(@, st.wsRef),
     !.wsRef = 0]

\* The effect body for options (en, ms).
effect(st, en, ms) == IF en THEN connect(st, en, ms) ELSE st

\* sendJson(payload) without the readyState test.
sendJsonNoStateCheck(st, payload) ==
  IF st.wsRef = 0
  THEN [st |-> st, ret |-> FALSE]
  ELSE [st |-> [st EXCEPT !.socks[st.wsRef].out = Append(@, JSONstringify(payload))],
        ret |-> TRUE]

\* sendJson(payload): the state after the call and the returned value.
sendJson(st, payload) ==
  IF st.wsRef = 0 \/ st.socks[st.wsRef].state # "OPEN"
  THEN [st |-> st, ret |-> FALSE]
  ELSE [st |-> [st EXCEPT !.socks[st.wsRef].out = Append(@, JSONstringify(payload))],
        ret |-> TRUE]

SetWsState(st) ==
  /\ socks' = st.socks
  /\ wsRef' = st.wsRef
  /\ reconnectTimerRef' = st.ref
  /\ timers' = st.timers
  /\ timerSeq' = st.seq

\* connect() creates no socket, or the run has fewer than n sockets so far.
CanConnectUpTo(n) == token = NoToken \/ Len(socks) < n

CanConnect == CanConnectUpTo(MaxSocks)

\* connect() ran: Len(socks) when it found no token, else the value before.
IdleAfterConnect(prev) == IF token = NoToken THEN Len(socks) ELSE prev

\* First commit of the component: the effect runs.
MountCommit(en, ms, oo) ==
  /\ phase = "new"
  /\ phase' = "mounted"
  /\ enabled' = en
  /\ reconnectMs' = ms
  /\ onOpenRef' = oo
  /\ SetWsState(effect(WsState, en, ms))
  /\ lost' = FALSE
  /\ idleAt' = IF en THEN IdleAfterConnect(-1) ELSE -1
  /\ UNCHANGED <<token, sendLog, received, delivered>>
  /\ UNCHANGED nonWsVars

Mount(en, ms, oo) == CanConnect /\ MountCommit(en, ms, oo)

\* A render with other options: the dependencies [enabled, reconnectMs]
\* changed, so the previous cleanup (if the previous run returned one) and
\* the effect body run in the same commit.
RerenderCommit(en, ms) ==
  /\ phase = "mounted"
  /\ <<en, ms>> # <<enabled, reconnectMs>>
  /\ enabled' = en
  /\ reconnectMs' = ms
  /\ SetWsState(effect(IF enabled THEN cleanup(WsState) ELSE WsState, en, ms))
  /\ lost' = FALSE
  /\ idleAt' = IF en THEN IdleAfterConnect(-1) ELSE -1
  /\ UNCHANGED <<phase, token, onOpenRef, sendLog, received, delivered>>
  /\ UNCHANGED nonWsVars

Rerender(en, ms) == CanConnect /\ RerenderCommit(en, ms)

\* The component unmounts: the last cleanup runs.
Unmount ==
  /\ phase = "mounted"
  /\ phase' = "unmounted"
  /\ SetWsState(IF enabled THEN cleanup(WsState) ELSE WsState)
  /\ lost' = IF enabled THEN FALSE ELSE lost
  /\ idleAt' = -1
  /\ UNCHANGED <<enabled, reconnectMs, token, onOpenRef, sendLog, received, delivered>>
  /\ UNCHANGED nonWsVars

\* The browser establishes socket i: ws.onopen.
SockOpen(i) ==
  /\ socks[i].state = "CONNECTING"
  /\ socks' = onopen([WsState EXCEPT !.socks[i].state = "OPEN"], i, onOpenRef).socks
  /\ UNCHANGED <<phase, enabled, reconnectMs, token, wsRef,
                 reconnectTimerRef, timers, timerSeq, onOpenRef, wsObsVars>>
  /\ UNCHANGED nonWsVars

\* Socket i is closed: the connection failed or was dropped (from
\* CONNECTING or OPEN), or the closing handshake that close() started is
\* done (from CLOSING). The browser dispatches the close event.
SockClosed(i) ==
  /\ socks[i].state # "CLOSED"
  /\ SetWsState(onclose([WsState EXCEPT !.socks[i].state = "CLOSED"], i))
  /\ lost' = IF socks[i].state \in Live THEN TRUE ELSE lost
  /\ UNCHANGED <<phase, enabled, reconnectMs, token, onOpenRef,
                 sendLog, received, delivered, idleAt>>
  /\ UNCHANGED nonWsVars

\* Time passes for the pending timers.
WsTick ==
  /\ \E t \in timers : t.left > 0
  /\ timers' = {[t EXCEPT !.left = IF @ > WsTickMs THEN @ - WsTickMs ELSE 0] : t \in timers}
  /\ UNCHANGED <<phase, enabled, reconnectMs, token, socks, wsRef,
                 reconnectTimerRef, timerSeq, onOpenRef, wsObsVars>>
  /\ UNCHANGED nonWsVars

\* A pending timer is due: it runs connect() of the closure that set it.
TimerCallback(t) ==
  /\ t \in timers
  /\ t.left = 0
  /\ SetWsState(connect([WsState EXCEPT !.timers = @ \ {t}], t.en, t.ms))
  /\ lost' = FALSE
  /\ idleAt' = IdleAfterConnect(idleAt)
  /\ UNCHANGED <<phase, enabled, reconnectMs, token, onOpenRef,
                 sendLog, received, delivered>>
  /\ UNCHANGED nonWsVars

TimerFire(t) == CanConnect /\ TimerCallback(t)

\* Login stores a credential, or rotates it.
StoreToken(tk) ==
  /\ tk # token
  /\ token' = tk
  /\ UNCHANGED <<phase, enabled, reconnectMs, socks, wsRef,
                 reconnectTimerRef, timers, timerSeq, onOpenRef, wsObsVars>>
  /\ UNCHANGED nonWsVars

\* apiCall removes the credential on a 401 response.
RemoveToken ==
  /\ token # NoToken
  /\ token' = NoToken
  /\ UNCHANGED <<phase, enabled, reconnectMs, socks, wsRef,
                 reconnectTimerRef, timers, timerSeq, onOpenRef, wsObsVars>>
  /\ UNCHANGED nonWsVars

\* The caller sends envelope number n of the run.
Envelope(n) == [type |-> "agent_message", data |-> [n |-> n]]

\* A call of the returned sendJson.
SendJson ==
  /\ phase # "new"
  /\ Len(sendLog) < MaxSends
  /\ LET payload == Envelope(Len(sendLog) + 1)
         r == sendJson(WsState, payload)
     IN /\ SetWsState(r.st)
        /\ sendLog' = Append(sendLog, [payload |-> payload, ret |-> r.ret])
  /\ UNCHANGED <<phase, enabled, reconnectMs, token, onOpenRef,
                 received, delivered, lost, idleAt>>
  /\ UNCHANGED nonWsVars

\* The JSON value null: the text "null" parses to it.
JsonNull == [null |-> TRUE]

\* Event number n that the server pushes in the run.
PushedEvent(n) == [type |-> "new_message", data |-> [n |-> n]]

\* The frames a socket may receive as frame number n of the run.
Frames(n) == {Garbage, JSONstringify(JsonNull), JSONstringify(PushedEvent(n))}

\* ws.onmessage(event) with dl the calls of onMessageRef.current so far: the
\* catch swallows what JSON.parse or the handler throws.
onmessage(dl, f) ==
  IF ParseThrows(f) THEN dl ELSE Append(dl, JSONparse(f))

\* An open socket receives frame f.
SockMessage(i, f) ==
  /\ socks[i].state = "OPEN"
  /\ Len(received) < MaxFrames
  /\ received' = Append(received, f)
  /\ delivered' = onmessage(delivered, f)
  /\ UNCHANGED <<phase, enabled, reconnectMs, token, socks, wsRef, reconnectTimerRef,
                 timers, timerSeq, onOpenRef, sendLog, lost, idleAt>>
  /\ UNCHANGED nonWsVars

InitWs ==
  /\ phase = "new"
  /\ enabled = FALSE
  /\ reconnectMs = ReconnectMsDefault
  /\ token = NoToken
  /\ socks = <<>>
  /\ wsRef = 0
  /\ reconnectTimerRef = 0
  /\ timers = {}
  /\ timerSeq = 0
  /\ onOpenRef = "none"
  /\ sendLog = <<>>
  /\ received = <<>>
  /\ delivered = <<>>
  /\ lost = FALSE
  /\ idleAt = -1

\* The hook under every option a caller may pass, without a handshake.
NextWs ==
  \/ \E en \in BOOLEAN, ms \in {ReconnectMsDefault, ReconnectMsOther} :
       Mount(en, ms, "none")
  \/ \E en \in BOOLEAN, ms \in {ReconnectMsDefault, ReconnectMsOther} : Rerender(en, ms)
  \/ Unmount
  \/ \E i \in DOMAIN socks : SockOpen(i)
  \/ \E i \in DOMAIN socks : SockClosed(i)
  \/ WsTick
  \/ \E t \in timers : TimerFire(t)
  \/ \E tk \in Tokens : StoreToken(tk)
  \/ RemoveToken

\* The hook as the three views call it: { enabled: true } and the default
\* reconnectMs, never changed by a render.
NextWsView ==
  \/ \E oo \in OnOpens : Mount(TRUE, ReconnectMsDefault, oo)
  \/ Unmount
  \/ \E i \in DOMAIN socks : SockOpen(i)
  \/ \E i \in DOMAIN socks : SockClosed(i)
  \/ WsTick
  \/ \E t \in timers : TimerFire(t)
  \/ \E tk \in Tokens : StoreToken(tk)
  \/ RemoveToken

NextWsSend == NextWsView \/ SendJson

\* The hook with options that a render may change, on runs with one more
\* socket: a third socket is what a reconnection after an effect re-run makes.
NextWsRerun ==
  \/ \E ms \in {ReconnectMsDefault, ReconnectMsOther} :
       CanConnectUpTo(MaxRerunSocks) /\ MountCommit(TRUE, ms, "none")
  \/ \E en \in BOOLEAN, ms \in {ReconnectMsDefault, ReconnectMsOther} :
       CanConnectUpTo(MaxRerunSocks) /\ RerenderCommit(en, ms)
  \/ Unmount
  \/ \E i \in DOMAIN socks : SockOpen(i)
  \/ \E i \in DOMAIN socks : SockClosed(i)
  \/ WsTick
  \/ \E t \in timers : CanConnectUpTo(MaxRerunSocks) /\ TimerCallback(t)
  \/ \E tk \in Tokens : StoreToken(tk)
  \/ RemoveToken

NextWsRecv ==
  \/ NextWsView
  \/ \E i \in DOMAIN socks, f \in Frames(Len(received) + 1) : SockMessage(i, f)

(***************************************************************************)
(* Connection manager: properties                                          *)
(***************************************************************************)
\* close() has been called and open has not been called since: the component
\* is unmounted, or its last render disabled the hook.
Closed == phase = "unmounted" \/ (phase = "mounted" /\ ~enabled)

\* This step runs the effect's cleanup (the manager's close()).
CloseCalled ==
  /\ phase = "mounted" /\ enabled
  /\ phase' = "unmounted" \/ <<enabled', reconnectMs'>> # <<enabled, reconnectMs>>

\* This step closes socket i, on which close() was not called.
UnsolicitedClosure(i) ==
  /\ socks[i].state \in Live
  /\ Len(socks') >= i
  /\ socks'[i].state = "CLOSED"

\* C3: after close() no reconnection is scheduled: while the manager is
\* closed, no reconnection timer is pending and no channel of it is
\* connecting or open.
C3_NoReconnectAfterClose ==
  Closed => /\ timers = {}
            /\ \A i \in DOMAIN socks : socks[i].state \notin Live

\* C4: a channel closure not preceded by close() leaves exactly one pending
\* reconnection timer, due after the delay configured for that channel;
\* close() leaves no timer pending (the pending attempt is cancelled, and a
\* cancelled timer is never run: only pending timers fire and ids are not
\* reused); and close() is idempotent: a second close() right after the
\* first changes nothing.
C4_OneReconnectCancelledByClose ==
  /\ [][\A i \in DOMAIN socks :
          UnsolicitedClosure(i) =>
            /\ Cardinality(timers') = 1
            /\ \A t \in timers' : /\ t.left = socks[i].ms
                                  /\ t.id = reconnectTimerRef'
                                  /\ t.id > timerSeq
            /\ socks[i].ms \in {ReconnectMsDefault, ReconnectMsOther}]_vars
  /\ [][CloseCalled => /\ timers' = {}
                       /\ \A t \in timers : t.id <= timerSeq']_vars
  /\ [](cleanup(cleanup(WsState)) = cleanup(WsState))

\* C4 witness: the only channel was closed while the hook was enabled, and
\* its reconnection is pending with the whole default delay left.
C4_Witness ==
  /\ phase = "mounted" /\ enabled
  /\ Len(socks) = 1 /\ socks[1].state = "CLOSED" /\ socks[1].ms = ReconnectMsDefault
  /\ timers = {[id |-> 1, left |-> ReconnectMsDefault, en |-> TRUE, ms |-> ReconnectMsDefault]}


\* The frames handed to a socket so far.
Transmitted ==
  UNION {{socks[i].out[k] : k \in DOMAIN socks[i].out} : i \in DOMAIN socks}

\* C11: send(envelope) returns true exactly when the manager holds a channel
\* in the open state, and then the envelope is handed to that channel and to
\* no other; when it returns false no channel is handed anything, and an
\* envelope refused this way is never transmitted later.
C11_SendGatedByOpen ==
  /\ [][Len(sendLog') > Len(sendLog) =>
          LET call == sendLog'[Len(sendLog')]
              open == wsRef # 0 /\ socks[wsRef].state = "OPEN"
          IN /\ call.ret = open
             /\ call.ret =>
                  socks' = [socks EXCEPT ![wsRef].out =
                              Append(@, JSONstringify(call.payload))]
             /\ ~call.ret => socks' = socks]_vars
  /\ [](\A k \in DOMAIN sendLog :
          ~sendLog[k].ret => JSONstringify(sendLog[k].payload) \notin Transmitted)

\* C11 witness: an envelope was refused (the channel was not open yet), the
\* channel has opened since, and the envelope was not transmitted.
C11_Witness ==
  /\ Len(sendLog) >= 1 /\ ~sendLog[1].ret
  /\ wsRef # 0 /\ socks[wsRef].state = "OPEN"
  /\ JSONstringify(sendLog[1].payload) \notin Transmitted

\* C12: when connect() finds no stored credential, at an open call or at a
\* reconnection attempt, it creates no channel and schedules no reconnection
\* timer, and the manager stays idle until it is opened again: from that
\* attempt on no timer is pending and no channel has been created.
C12_IdleWithoutCredential ==
  idleAt >= 0 => /\ timers = {}
                 /\ Len(socks) = idleAt

\* The handshake frame of the mounted view.
Handshake == JSONstringify(SubscribeChats(onOpenRef))

\* C13: every establishment of a channel, the first or a reconnection, calls
\* onOpen once on that channel: a list view's subscribe_chats handshake with
\* its own chat type is the one frame sent on the channel at that step, an
\* open channel holds it exactly once, a channel that was never established
\* holds none; and every channel is created with the credential that is
\* stored at that attempt.
C13_HandshakeOncePerChannel ==
  /\ [][\A i \in DOMAIN socks :
          (socks[i].state = "CONNECTING" /\ socks'[i].state = "OPEN" /\ onOpenRef # "none")
            => socks'[i].out = Append(socks[i].out, Handshake)]_vars
  /\ [][Len(socks') > Len(socks) =>
          /\ Len(socks') = Len(socks) + 1
          /\ token # NoToken
          /\ socks'[Len(socks')].token = token
          /\ socks'[Len(socks')].out = <<>>]_vars
  /\ [](onOpenRef # "none" =>
          \A i \in DOMAIN socks :
            /\ socks[i].state = "CONNECTING" => socks[i].out = <<>>
            /\ socks[i].state = "OPEN" => socks[i].out = <<Handshake>>
            /\ socks[i].out \in {<<>>, <<Handshake>>})

\* C13 witness: the pending view's channel was lost and re-established with a
\* rotated credential, and both channels carried the handshake once.
C13_Witness ==
  /\ onOpenRef = "pending"
  /\ Len(socks) = 2
  /\ socks[1].state = "CLOSED" /\ socks[2].state = "OPEN"
  /\ socks[1].token # socks[2].token
  /\ socks[1].out = <<Handshake>> /\ socks[2].out = <<Handshake>>

\* The model creates no further socket: a due timer waits.
AtSocketBound == token # NoToken /\ Len(socks) = MaxSocks

\* C14: connection loss is never final: whenever a channel was closed and
\* not by close(), a new connection attempt (connect() run by the timer that
\* the closure set) is eventually made, unless close() comes first; this holds
\* after every closure, however many came before.
C14_LossAlwaysRetried == lost ~> (~lost \/ AtSocketBound)

\* C14 witness: the first channel was lost, its reconnection timer has run
\* connect(), and the channel that attempt created is connecting.
C14_Witness ==
  /\ phase = "mounted" /\ enabled /\ ~lost
  /\ Len(socks) = 2 /\ timerSeq = 1 /\ timers = {}
  /\ socks[1].state = "CLOSED" /\ socks[2].state = "CONNECTING"

\* The frame holds an Event Envelope { type, data }.
IsEnvelopeFrame(f) ==
  /\ ~ParseThrows(f)
  /\ {"type", "data"} \subseteq DOMAIN JSONparse(f)

\* The envelopes of the frames fs, in the order of fs.
EnvelopesOf(fs) ==
  LET good == SelectSeq(fs, IsEnvelopeFrame)
  IN [k \in 1..Len(good) |-> JSONparse(good[k])]

\* C15: a frame that does not parse as an Event Envelope is discarded:
\* onEvent is called with the envelopes of the received frames, in receipt
\* order, and with nothing else; and receiving a frame changes neither the
\* sockets nor the reconnection timer.
C15_MalformedFrameDiscarded ==
  /\ [](delivered = EnvelopesOf(received))
  /\ [][Len(received') > Len(received) =>
          UNCHANGED <<socks, wsRef, reconnectTimerRef, timers, timerSeq>>]_vars

\* The channels of the manager that are connecting or open.
LiveSocks == {i \in DOMAIN socks : socks[i].state \in Live}

\* C25: at any time the manager has at most one channel that is connecting
\* or open, also after a cleanup followed by a new effect run and after
\* reconnections; so no two channels deliver the same event to onMessage.
C25_AtMostOneLiveChannel == Cardinality(LiveSocks) <= 1

(***************************************************************************)
(* Messages, the server's store and the push channel                       *)
(***************************************************************************)
Sessions == {1, 2}
\* the ids of the messages the server may create in a run
MsgIds == {1, 2, 3}

\* The messages the server may create, by id (ids are opaque: their order says
\* nothing about creation order). Every third one is of session 2.
SessionOf(i) == IF i % 3 = 0 THEN 2 ELSE 1
SenderOf(i) == CASE i % 4 = 1 -> "ai" [] i % 4 = 2 -> "user" [] OTHER -> "agent"
CreatedAtOf(i) == IF i % 4 \in {2, 3} THEN 1 ELSE 2

\* ApiMessage i as the server sends it. Ids are <<kind, n>>: "m" for the
\* server's, "system" for the ones the customer view makes up.
ApiMessage(i) ==
  [id |-> <<"m", i>>, sender_type |-> SenderOf(i), created_at |-> CreatedAtOf(i)]

\* A push event, { type, data }.
Event(type, sid, i, status, handler, unread) ==
  [type |-> type, session_id |-> sid, msg |-> i, status |-> status,
   handler_type |-> handler, unread_count |-> unread]
NewMessageEvent(i) == Event("new_message", SessionOf(i), i, "", "", 0)
SessionCompletedEvent(sid) == Event("session_completed", sid, 0, "", "", 0)

\* The server's answer to a message-list request: the given stored messages
\* by created_at and then by id.
RECURSIVE ServerOrder(_)
ServerOrder(ids) ==
  IF ids = {} THEN <<>>
  ELSE LET first == CHOOSE i \in ids :
                      \A j \in ids : \/ CreatedAtOf(i) < CreatedAtOf(j)
                                     \/ CreatedAtOf(i) = CreatedAtOf(j) /\ i <= j
       IN <<ApiMessage(first)>> \o ServerOrder(ids \ {first})
Snapshot(sid) == {i \in srvMsgs : SessionOf(i) = sid}

\* String.prototype.localeCompare on two ids: negative, 0 or positive.
KindRank(k) == IF k = "m" THEN 0 ELSE 1
localeCompare(a, b) ==
  IF a[1] # b[1] THEN KindRank(a[1]) - KindRank(b[1]) ELSE a[2] - b[2]

\* senderPriority[sender] ?? 99
PriorityOf(senderPriority, sender) ==
  IF sender \in DOMAIN senderPriority THEN senderPriority[sender] ELSE 99

\* The comparator given to Array.prototype.sort.
compareMessages(senderPriority, a, b) ==
  IF a.ts # b.ts THEN a.ts - b.ts
  ELSE IF PriorityOf(senderPriority, a.sender) # PriorityOf(senderPriority, b.sender)
       THEN PriorityOf(senderPriority, a.sender) - PriorityOf(senderPriority, b.sender)
       ELSE localeCompare(a.id, b.id)

\* [...list].sort(comparator): a stable sort.
RECURSIVE InsertMessage(_, _, _)
InsertMessage(senderPriority, sorted, m) ==
  IF sorted = <<>> THEN <<m>>
  ELSE IF compareMessages(senderPriority, m, Head(sorted)) < 0
       THEN <<m>> \o sorted
       ELSE <<Head(sorted)>> \o InsertMessage(senderPriority, Tail(sorted), m)
RECURSIVE SortWith(_, _)
SortWith(senderPriority, list) ==
  IF list = <<>> THEN <<>>
  ELSE InsertMessage(senderPriority,
                     SortWith(senderPriority, SubSeq(list, 1, Len(list) - 1)),
                     list[Len(list)])

\* Requests in flight are a bag: any of them may be answered next.
Put(bag, r) == bag (+) SetToBag({r})
Take(bag, r) == bag (-) SetToBag({r})

HasId(list, id) == \E k \in DOMAIN list : list[k].id = id
IdsOf(list) == {list[k].id : k \in DOMAIN list}

\* ---- the environment's steps ----
\* Date.now() advances.
Tick ==
  /\ now + TickMs <= NowStart + MaxTicks * TickMs
  /\ now' = now + TickMs
  /\ UNCHANGED <<srvMsgs, srvSess, wsVars, pageVars, custVars, actVars, obsVars>>

\* The server stores message i; created_at never goes back.
StoreMessage(i) ==
  /\ i \notin srvMsgs
  /\ \A j \in srvMsgs : CreatedAtOf(j) <= CreatedAtOf(i)
  /\ srvMsgs' = srvMsgs \cup {i}

\* A message that no request of the mounted view made (the other party's,
\* or the automated reply).
SrvNewMessage(i) ==
  /\ StoreMessage(i)
  /\ UNCHANGED <<now, srvSess, wsVars, pageVars, custVars, actVars, obsVars>>

\* The new_message events a view may receive now: delivery is at least once
\* and in any order, so any stored message may be announced, again too.
NewMessageEvents == {NewMessageEvent(i) : i \in srvMsgs}

(***************************************************************************)
(* Customer view: CustomerChat                                             *)
(***************************************************************************)
\* the session the server gives this customer
CustomerSession == 1

CustomerPriority == [user |-> 0, ai |-> 1]
CustomerSortMessages(list) == SortWith(CustomerPriority, list)

\* addMessage without the test for a known id.
CustomerAddMessageNoDedup(prev, m) == CustomerSortMessages(Append(prev, m))

\* addMessage: the setMessages updater.
CustomerAddMessage(prev, m) ==
  IF HasId(prev, m.id) THEN prev ELSE CustomerSortMessages(Append(prev, m))

\* mapApiMessage: the customer view shows ai and agent alike.
CustomerMapApiMessage(m) ==
  [id |-> m.id,
   sender |-> IF m.sender_type = "user" THEN "user" ELSE "ai",
   ts |-> IF m.created_at # 0 THEN m.created_at ELSE now]

\* The closing message onWsMessage makes up for session_completed.
SystemMessage == [id |-> <<"system", now>>, sender |-> "ai", ts |-> now]

\* The router mounts CustomerChat: the init effect sends its request.
MountCustomer ==
  /\ page = "none"
  /\ page' = "customer"
  /\ initFetch' = [st |-> "sent", snap |-> {}]
  /\ UNCHANGED <<envVars, messages, sessionId, loading, error, chatEnded,
                 logoutCountdown, logoutTimer, posts>>
  /\ UNCHANGED nonCustVars

\* The server answers the init request with the session and its messages.
CustInitServe ==
  /\ page = "customer"
  /\ initFetch.st = "sent"
  /\ initFetch' = [st |-> "ok", snap |-> Snapshot(CustomerSession)]
  /\ UNCHANGED <<envVars, messages, sessionId, loading, error, chatEnded,
                 logoutCountdown, logoutTimer, posts>>
  /\ UNCHANGED <<page, nonCustVars>>

\* init: the response arrives.
CustInitResponse ==
  /\ page = "customer"
  /\ initFetch.st = "ok"
  /\ sessionId' = CustomerSession
  /\ messages' = CustomerSortMessages([k \in DOMAIN ServerOrder(initFetch.snap) |->
                   CustomerMapApiMessage(ServerOrder(initFetch.snap)[k])])
  /\ loading' = FALSE
  /\ initFetch' = [st |-> "done", snap |-> {}]
  /\ UNCHANGED <<envVars, error, chatEnded, logoutCountdown, logoutTimer, posts>>
  /\ UNCHANGED <<page, nonCustVars>>

\* init when apiCall throws, with setLoading(false) at the end of the try
\* block instead of in finally.
initCatchNoFinally(prev, wasLoading) ==
  [messages |-> prev, error |-> TRUE, loading |-> wasLoading]

\* init when apiCall throws: catch sets the error, finally clears loading;
\* setSessionId and setMessages are not reached.
initCatch(prev, wasLoading) ==
  [messages |-> prev, error |-> TRUE, loading |-> FALSE]

\* init: apiCall throws.
CustInitFail ==
  /\ page = "customer"
  /\ initFetch.st = "sent"
  /\ LET out == initCatch(messages, loading)
     IN /\ messages' = out.messages
        /\ error' = out.error
        /\ loading' = out.loading
  /\ initFetch' = [st |-> "done", snap |-> {}]
  /\ UNCHANGED <<envVars, sessionId, chatEnded, logoutCountdown, logoutTimer, posts>>
  /\ UNCHANGED <<page, nonCustVars>>

\* The countdown effect, logging out one second early.
logoutEffectEarly(countdown) ==
  IF countdown <= 1
  THEN [logout |-> TRUE, timer |-> -1]
  ELSE [logout |-> FALSE, timer |-> LogoutStepMs]

\* The countdown effect, run after a commit that changed chatEnded or
\* logoutCountdown, with chatEnded true and the countdown not null: it calls
\* onLogout() when the countdown is down, else it sets the timer of the next
\* step (its cleanup has cleared the previous one).
logoutEffect(countdown) ==
  IF countdown <= 0
  THEN [logout |-> TRUE, timer |-> -1]
  ELSE [logout |-> FALSE, timer |-> LogoutStepMs]

\* onWsMessage(payload). After session_completed the countdown effect runs
\* again if the commit changed chatEnded or logoutCountdown.
CustOnWsMessage(payload) ==
  /\ page = "customer"
  /\ IF payload.type = "new_message" /\ payload.msg # 0
     THEN /\ messages' = CustomerAddMessage(messages,
                           CustomerMapApiMessage(ApiMessage(payload.msg)))
          /\ UNCHANGED <<chatEnded, logoutCountdown, logoutTimer>>
     ELSE IF payload.type = "session_completed"
     THEN /\ chatEnded' = TRUE
          /\ logoutCountdown' = LogoutCountdownStart
          /\ logoutTimer' = IF chatEnded /\ logoutCountdown = LogoutCountdownStart
                            THEN logoutTimer
                            ELSE logoutEffect(LogoutCountdownStart).timer
          /\ messages' = CustomerAddMessage(messages, SystemMessage)
     ELSE UNCHANGED <<messages, chatEnded, logoutCountdown, logoutTimer>>
  /\ UNCHANGED <<envVars, sessionId, loading, error, initFetch, posts>>
  /\ UNCHANGED <<page, nonCustVars>>

\* Time passes in the customer's browser: Date.now() and the pending timer.
CustTick ==
  /\ page = "customer"
  /\ now + CustTickMs <= NowStart + MaxCustTicks * CustTickMs
  /\ now' = now + CustTickMs
  /\ logoutTimer' = IF logoutTimer > CustTickMs THEN logoutTimer - CustTickMs
                    ELSE IF logoutTimer >= 0 THEN 0 ELSE logoutTimer
  /\ UNCHANGED <<srvMsgs, srvSess, messages, sessionId, loading, error, chatEnded,
                 logoutCountdown, initFetch, posts>>
  /\ UNCHANGED <<page, nonCustVars>>

\* The countdown timer is due: setLogoutCountdown(prev - 1), and the effect
\* runs again in that commit. onLogout() makes App show the login page.
LogoutTimerFires ==
  /\ page = "customer"
  /\ logoutTimer = 0
  /\ logoutCountdown' = logoutCountdown - 1
  /\ LET out == logoutEffect(logoutCountdown - 1)
     IN /\ logoutTimer' = out.timer
        /\ page' = IF out.logout THEN "login" ELSE page
  /\ UNCHANGED <<envVars, messages, sessionId, loading, error, chatEnded,
                 initFetch, posts>>
  /\ UNCHANGED nonCustVars

\* handleSend, with no test of chatEnded.
CustSendGuardNoEnded(hasText) == sessionId # 0 /\ hasText

\* handleSend goes on to apiCall: a session, some text, chat not ended.
CustSendGuard(hasText) == sessionId # 0 /\ hasText /\ ~chatEnded

\* handleSend(content): hasText is whether content.trim() is not empty.
CustHandleSend(hasText) ==
  /\ page = "customer"
  /\ BagCardinality(posts) < MaxPosts
  /\ IF CustSendGuard(hasText)
     THEN /\ error' = FALSE
          /\ posts' = Put(posts, [sid |-> sessionId, msg |-> 0])
     ELSE UNCHANGED <<error, posts>>
  /\ UNCHANGED <<envVars, messages, sessionId, loading, chatEnded,
                 logoutCountdown, logoutTimer, initFetch>>
  /\ UNCHANGED <<page, nonCustVars>>

\* POST /api/chats/messages on the server: it stores the message (the
\* customer's from the customer view, the agent's from the admin view) and
\* answers with it.
SrvPostMessage(r, i) ==
  /\ BagIn(r, posts) /\ r.msg = 0
  /\ SessionOf(i) = r.sid
  /\ SenderOf(i) = IF page = "customer" THEN "user" ELSE "agent"
  /\ StoreMessage(i)
  /\ posts' = Put(Take(posts, r), [r EXCEPT !.msg = i])
  /\ UNCHANGED <<now, srvSess, page, messages>>
  /\ UNCHANGED <<wsVars, custVars, actVars, obsVars>>

RemoveAt(seq, k) == SubSeq(seq, 1, k - 1) \o SubSeq(seq, k + 1, Len(seq))

\* handleSend: the response arrives.
CustPostResponse(r) ==
  /\ page = "customer"
  /\ BagIn(r, posts) /\ r.msg # 0
  /\ messages' = CustomerAddMessage(messages, CustomerMapApiMessage(ApiMessage(r.msg)))
  /\ posts' = Take(posts, r)
  /\ UNCHANGED <<envVars, sessionId, loading, error, chatEnded,
                 logoutCountdown, logoutTimer, initFetch>>
  /\ UNCHANGED <<page, nonCustVars>>

\* handleSend: apiCall throws.
CustPostFail(r) ==
  /\ page = "customer"
  /\ BagIn(r, posts) /\ r.msg = 0
  /\ error' = TRUE
  /\ posts' = Take(posts, r)
  /\ UNCHANGED <<envVars, messages, sessionId, loading, chatEnded,
                 logoutCountdown, logoutTimer, initFetch>>
  /\ UNCHANGED <<page, nonCustVars>>



(***************************************************************************)
(* Admin view: ActiveChats. src/unnamed/part_000 and                       *)
(* components/admin/ActiveChats.tsx hold the same component; they differ   *)
(* in how the timeline is built. page = "active" is the former,            *)
(* page = "activeTsx" the latter.                                          *)
(***************************************************************************)
ActivePages == {"active", "activeTsx"}
IsActive(status) == status \in {"ai", "agent"}

\* ---- the server's side of the session list ----
\* the latest stored message of a set, 0 when there is none
LastOf(ids) ==
  IF ids = {} THEN 0
  ELSE CHOOSE i \in ids :
         \A j \in ids : \/ CreatedAtOf(j) < CreatedAtOf(i)
                        \/ CreatedAtOf(j) = CreatedAtOf(i) /\ j <= i
SrvUnread(s) == Cardinality({i \in Snapshot(s) : SenderOf(i) = "user"})

\* One ChatSession of GET /api/admin/chats/active.
SrvChat(s) ==
  [id |-> s, status |-> srvSess[s], unread |-> SrvUnread(s),
   last_message |-> LastOf(Snapshot(s)),
   timestamp |-> IF Snapshot(s) = {} THEN 0 ELSE CreatedAtOf(LastOf(Snapshot(s)))]

RECURSIVE SrvChats(_)
SrvChats(ss) ==
  IF ss = {} THEN <<>>
  ELSE LET s == CHOOSE x \in ss : \A y \in ss : x <= y
       IN (IF IsActive(srvSess[s]) THEN <<SrvChat(s)>> ELSE <<>>) \o SrvChats(ss \ {s})

\* The list events a view subscribed to 'active' may receive now.
UnreadEvents ==
  {Event("unread_count_updated", s, 0, "", "", SrvUnread(s)) : s \in Sessions}
StatusEvents ==
  {Event("session_status_changed", s, 0,
         IF IsActive(srvSess[s]) THEN "active" ELSE srvSess[s],
         IF IsActive(srvSess[s]) THEN srvSess[s] ELSE "", 0) : s \in Sessions}

\* The server announces an active session to the views subscribed to
\* 'active' (at least once, and possibly late).
NewSessionEvent(s) == Event("new_chat_session", s, 0, "", "", 0)
NewSessionEvents == {NewSessionEvent(s) : s \in {x \in Sessions : IsActive(srvSess[x])}}

\* The server moves session s on: escalation (ai to pending), takeover (ai
\* to agent), acceptance (pending to agent).
SrvSetStatus(s, status) ==
  /\ \/ srvSess[s] = "ai" /\ status \in {"pending", "agent"}
     \/ srvSess[s] = "pending" /\ status = "agent"
  /\ srvSess' = [srvSess EXCEPT ![s] = status]
  /\ evicted' = IF IsActive(status) THEN evicted \ {s} ELSE evicted
  /\ UNCHANGED <<now, srvMsgs, resyncLog, unsynced>>
  /\ UNCHANGED <<wsVars, pageVars, custVars, actVars>>

\* ---- the timeline ----
\* mapApiMessage
ActiveMapApiMessage(m) ==
  [id |-> m.id, sender |-> m.sender_type,
   ts |-> IF m.created_at # 0 THEN m.created_at ELSE now]

ActivePriority == [user |-> 0, agent |-> 1, ai |-> 2]
\* sortMessages of part_000
ActiveSortMessages(list) == SortWith(ActivePriority, list)

\* the setMessages updater of the new_message branch and of handleSendMessage
ActiveAddMessage(prev, mapped) ==
  IF HasId(prev, mapped.id) THEN prev
  ELSE IF page = "active" THEN ActiveSortMessages(Append(prev, mapped))
  ELSE Append(prev, mapped)

\* what fetchMessages gives to setMessages
ActiveLoadMessages(list) ==
  IF page = "active"
  THEN ActiveSortMessages([k \in DOMAIN list |-> ActiveMapApiMessage(list[k])])
  ELSE [k \in DOMAIN list |-> ActiveMapApiMessage(list[k])]

\* ---- the list ----
ChatIds(list) == {list[k].id : k \in DOMAIN list}
chatsRef == chats
loadingChatsRef == loadingChats

\* fetchChats(), up to its await
fetchChats ==
  /\ loadingChats' = TRUE
  /\ listFetches' = Append(listFetches, [st |-> "sent", snap |-> <<>>])

\* ensureChatVisible without the 500 ms test
ensureFetchesNoDebounce(sid) ==
  /\ sid # 0
  /\ ~loadingChatsRef
  /\ sid \notin ChatIds(chatsRef)

\* ensureChatVisible(sid) gets as far as fetchChats()
ensureFetches(sid) ==
  /\ sid # 0
  /\ ~loadingChatsRef
  /\ sid \notin ChatIds(chatsRef)
  /\ ~(now - lastChatsRefreshRef < DebounceMs)

LastTwo(log) == IF Len(log) > 2 THEN SubSeq(log, Len(log) - 1, Len(log)) ELSE log

\* ensureChatVisible(sid)
ensureChatVisible(sid) ==
  IF ensureFetches(sid)
  THEN /\ lastChatsRefreshRef' = now
       /\ fetchChats
       /\ resyncLog' = LastTwo(Append(resyncLog, now))
  ELSE UNCHANGED <<lastChatsRefreshRef, loadingChats, listFetches, resyncLog>>

\* The router mounts ActiveChats (of part_000, or of ActiveChats.tsx): the
\* effect calls fetchChats().
MountActive(p) ==
  /\ page = "none"
  /\ page' = p
  /\ fetchChats
  /\ UNCHANGED <<envVars, messages, posts, chats, selectedChat, loadingMessages,
                 lastChatsRefreshRef, msgFetches, obsVars>>
  /\ UNCHANGED nonActVars

\* onChange of the category select or of the search box, to a value that
\* every session of the run matches: fetchChats is made anew with the new
\* filterCategory / searchQuery, so the effect calls fetchChats() again.
ActSetFilter ==
  /\ page \in ActivePages
  /\ Len(listFetches) < MaxListFetches
  /\ fetchChats
  /\ UNCHANGED <<envVars, messages, posts, chats, selectedChat, loadingMessages,
                 lastChatsRefreshRef, msgFetches, obsVars>>
  /\ UNCHANGED <<page, nonActVars>>

\* GET /api/admin/chats/active on the server
SrvListChats(k) ==
  /\ page \in ActivePages
  /\ k \in DOMAIN listFetches /\ listFetches[k].st = "sent"
  /\ listFetches' = [listFetches EXCEPT ![k] = [st |-> "ok", snap |-> SrvChats(Sessions)]]
  /\ UNCHANGED <<envVars, pageVars, chats, selectedChat, loadingChats,
                 loadingMessages, lastChatsRefreshRef, msgFetches, obsVars>>
  /\ UNCHANGED nonActVars

\* fetchChats: the response arrives.
ActFetchChatsResponse(k) ==
  /\ page \in ActivePages
  /\ k \in DOMAIN listFetches /\ listFetches[k].st = "ok"
  /\ chats' = listFetches[k].snap
  /\ loadingChats' = FALSE
  /\ listFetches' = RemoveAt(listFetches, k)
  /\ unsynced' = unsynced \ ChatIds(chats')
  /\ UNCHANGED <<envVars, pageVars, selectedChat, loadingMessages,
                 lastChatsRefreshRef, msgFetches, resyncLog, evicted>>
  /\ UNCHANGED nonActVars

\* fetchChats: apiCall throws.
ActFetchChatsFail(k) ==
  /\ page \in ActivePages
  /\ k \in DOMAIN listFetches /\ listFetches[k].st = "sent"
  /\ loadingChats' = FALSE
  /\ listFetches' = RemoveAt(listFetches, k)
  /\ UNCHANGED <<envVars, pageVars, chats, selectedChat, loadingMessages,
                 lastChatsRefreshRef, msgFetches, obsVars>>
  /\ UNCHANGED nonActVars

\* The onClick of a list entry, clearing unread in neither place.
selectChatKeepsUnread(prev, chat) ==
  [chats |-> prev, selectedChat |-> chat]

\* The onClick of the list entry `chat`: what it gives to setChats and to
\* setSelectedChat.
selectChat(prev, chat) ==
  [chats |-> [k \in DOMAIN prev |->
                IF prev[k].id = chat.id THEN [prev[k] EXCEPT !.unread = 0] ELSE prev[k]],
   selectedChat |-> [chat EXCEPT !.unread = 0]]

\* The entry of session sid in the rendered list.
ChatOf(sid) == chats[CHOOSE k \in DOMAIN chats : chats[k].id = sid]

\* onClick of the list entry of chat sid
ActSelectChat(sid) ==
  /\ page \in ActivePages
  /\ sid \in ChatIds(chats)
  /\ BagCardinality(msgFetches) < MaxMsgFetches
  /\ chats' = selectChat(chats, ChatOf(sid)).chats
  /\ selectedChat' = selectChat(chats, ChatOf(sid)).selectedChat.id
  /\ loadingMessages' = TRUE
  /\ msgFetches' = Put(msgFetches, [sid |-> sid, st |-> "sent", snap |-> {}])
  /\ UNCHANGED <<envVars, pageVars, loadingChats, lastChatsRefreshRef,
                 listFetches, obsVars>>
  /\ UNCHANGED nonActVars

\* GET /api/chats/messages/:id on the server
SrvListMessages(r) ==
  /\ page \in ActivePages
  /\ BagIn(r, msgFetches) /\ r.st = "sent"
  /\ msgFetches' = Put(Take(msgFetches, r),
                       [r EXCEPT !.st = "ok", !.snap = Snapshot(r.sid)])
  /\ UNCHANGED <<envVars, pageVars, chats, selectedChat, loadingChats,
                 loadingMessages, lastChatsRefreshRef, listFetches, obsVars>>
  /\ UNCHANGED nonActVars

\* fetchMessages: the response arrives.
ActFetchMessagesResponse(r) ==
  /\ page \in ActivePages
  /\ BagIn(r, msgFetches) /\ r.st = "ok"
  /\ messages' = ActiveLoadMessages(ServerOrder(r.snap))
  /\ loadingMessages' = FALSE
  /\ msgFetches' = Take(msgFetches, r)
  /\ UNCHANGED <<envVars, page, posts, chats, selectedChat, loadingChats,
                 lastChatsRefreshRef, listFetches, obsVars>>
  /\ UNCHANGED nonActVars

\* fetchMessages when apiCall throws: there is no catch, so setMessages is
\* not reached, finally clears the flag and the returned promise rejects.
fetchMessagesThrows(prev) ==
  [messages |-> prev, loadingMessages |-> FALSE, rejects |-> TRUE]

\* fetchMessages: apiCall throws.
ActFetchMessagesFail(r) ==
  /\ page \in ActivePages
  /\ BagIn(r, msgFetches) /\ r.st = "sent"
  /\ LET out == fetchMessagesThrows(messages)
     IN /\ messages' = out.messages
        /\ loadingMessages' = out.loadingMessages
  /\ msgFetches' = Take(msgFetches, r)
  /\ UNCHANGED <<envVars, page, posts, chats, selectedChat, loadingChats,
                 lastChatsRefreshRef, listFetches, obsVars>>
  /\ UNCHANGED nonActVars

\* handleSendMessage(): hasText is whether agentMessage.trim() is not empty.
ActHandleSendMessage(hasText) ==
  /\ page \in ActivePages
  /\ BagCardinality(posts) < MaxPosts
  /\ IF hasText /\ selectedChat # 0
     THEN posts' = Put(posts, [sid |-> selectedChat, msg |-> 0])
     ELSE UNCHANGED posts
  /\ UNCHANGED <<envVars, page, messages, actVars, obsVars>>
  /\ UNCHANGED nonActVars

\* handleSendMessage: the response arrives.
ActPostResponse(r) ==
  /\ page \in ActivePages
  /\ BagIn(r, posts) /\ r.msg # 0
  /\ messages' = ActiveAddMessage(messages, ActiveMapApiMessage(ApiMessage(r.msg)))
  /\ posts' = Take(posts, r)
  /\ UNCHANGED <<envVars, page, actVars, obsVars>>
  /\ UNCHANGED nonActVars

\* handleSendMessage: apiCall throws.
ActPostFail(r) ==
  /\ page \in ActivePages
  /\ BagIn(r, posts) /\ r.msg = 0
  /\ posts' = Take(posts, r)
  /\ UNCHANGED <<envVars, page, messages, actVars, obsVars>>
  /\ UNCHANGED nonActVars

\* The setChats updater of the new_message branch, counting the message as
\* unread too (as the customer_message handler of the integration guide does).
newMessageListUpdateBumpsUnread(prev, sid, msg) ==
  [k \in DOMAIN prev |->
     IF prev[k].id = sid
     THEN [prev[k] EXCEPT !.last_message = msg.id[2],
                          !.timestamp = IF msg.created_at # 0 THEN msg.created_at ELSE @,
                          !.unread = @ + 1]
     ELSE prev[k]]

\* The setChats updater of the new_message branch, putting an entry for a
\* session the list does not hold in front (as the new_chat_session handler
\* of the integration guide does).
newMessageListUpsert(prev, sid, msg) ==
  IF sid \in ChatIds(prev)
  THEN [k \in DOMAIN prev |->
          IF prev[k].id = sid
          THEN [prev[k] EXCEPT !.last_message = msg.id[2],
                               !.timestamp = IF msg.created_at # 0 THEN msg.created_at ELSE @]
          ELSE prev[k]]
  ELSE <<[id |-> sid, status |-> "ai", unread |-> 0,
          last_message |-> msg.id[2], timestamp |-> msg.created_at]>> \o prev

\* The setChats updater of the new_message branch: last_message is the
\* message's content (here: which message it is), timestamp is
\* msg.created_at || c.timestamp.
newMessageListUpdate(prev, sid, msg) ==
  [k \in DOMAIN prev |->
     IF prev[k].id = sid
     THEN [prev[k] EXCEPT !.last_message = msg.id[2],
                          !.timestamp = IF msg.created_at # 0 THEN msg.created_at ELSE @]
     ELSE prev[k]]

\* An event that carries a delta for session e.session_id.
IsDelta(e) ==
  \/ e.type \in {"new_message", "unread_count_updated"}
  \/ e.type = "session_status_changed" /\ e.status = "active"

\* Observation: payload is a delta for a session that is active on the
\* server and not in the list, and after the handler (list requests after)
\* no list request is under way that will bring the session: none waits for
\* the server's answer and no answer on its way holds the session.
DeltaDropped(payload, after) ==
  /\ IsDelta(payload)
  /\ IsActive(srvSess[payload.session_id])
  /\ payload.session_id \notin ChatIds(chats)
  /\ ~\E k \in DOMAIN after :
        \/ after[k].st = "sent"
        \/ payload.session_id \in ChatIds(after[k].snap)

\* onWsMessage(payload)
ActOnWsMessage(payload) ==
  /\ page \in ActivePages
  /\ LET sid == payload.session_id IN
       IF payload.type = "new_message" /\ payload.msg # 0
       THEN /\ ensureChatVisible(sid)
            /\ chats' = newMessageListUpdate(chats, sid, ApiMessage(payload.msg))
            /\ messages' = IF selectedChat = sid
                           THEN ActiveAddMessage(messages,
                                  ActiveMapApiMessage(ApiMessage(payload.msg)))
                           ELSE messages
            /\ UNCHANGED <<selectedChat, evicted>>
       ELSE IF payload.type = "unread_count_updated"
       THEN IF sid = 0
            THEN UNCHANGED <<chats, messages, selectedChat, lastChatsRefreshRef,
                             loadingChats, listFetches, resyncLog, evicted>>
            ELSE /\ ensureChatVisible(sid)
                 /\ chats' = [k \in DOMAIN chats |->
                                IF chats[k].id = sid
                                THEN [chats[k] EXCEPT !.unread = payload.unread_count]
                                ELSE chats[k]]
                 /\ UNCHANGED <<messages, selectedChat, evicted>>
       ELSE IF payload.type = "session_status_changed" /\ sid # 0
       THEN IF payload.status # "active"
            THEN /\ chats' = SelectSeq(chats, LAMBDA c : c.id # sid)
                 /\ IF selectedChat = sid
                    THEN selectedChat' = 0 /\ messages' = <<>>
                    ELSE UNCHANGED <<selectedChat, messages>>
                 /\ evicted' = evicted \cup {sid}
                 /\ UNCHANGED <<lastChatsRefreshRef, loadingChats, listFetches, resyncLog>>
            ELSE /\ ensureChatVisible(sid)
                 /\ chats' = IF payload.handler_type = "" THEN chats
                             ELSE [k \in DOMAIN chats |->
                                     IF chats[k].id = sid
                                     THEN [chats[k] EXCEPT !.status =
                                            IF payload.handler_type = "agent"
                                            THEN "agent" ELSE "ai"]
                                     ELSE chats[k]]
                 /\ UNCHANGED <<messages, selectedChat, evicted>>
       ELSE UNCHANGED <<chats, messages, selectedChat, lastChatsRefreshRef,
                        loadingChats, listFetches, resyncLog, evicted>>
  /\ unsynced' = IF DeltaDropped(payload, listFetches')
                 THEN unsynced \cup {payload.session_id}
                 ELSE IF Len(listFetches') > Len(listFetches) THEN {} ELSE unsynced
  /\ UNCHANGED <<envVars, page, posts, loadingMessages, msgFetches>>
  /\ UNCHANGED nonActVars

(***************************************************************************)
(* Admin view: PendingChats (page = "pending"). Its useState cells are     *)
(* kept in the variables of the same names; its `loading` is loadingChats. *)
(***************************************************************************)
\* One PendingChat of GET /api/admin/chats/pending.
SrvPendingChat(s) == [id |-> s, status |-> "pending"]

RECURSIVE SrvPendingChats(_)
SrvPendingChats(ss) ==
  IF ss = {} THEN <<>>
  ELSE LET s == CHOOSE x \in ss : \A y \in ss : x <= y
       IN (IF srvSess[s] = "pending" THEN <<SrvPendingChat(s)>> ELSE <<>>)
            \o SrvPendingChats(ss \ {s})

\* The server announces a pending session to the views subscribed to 'pending'.
PendingNewSessionEvents ==
  {NewSessionEvent(s) : s \in {x \in Sessions : srvSess[x] = "pending"}}

\* fetchPendingChats(), up to its await
fetchPendingChats ==
  /\ loadingChats' = TRUE
  /\ listFetches' = Append(listFetches, [st |-> "sent", snap |-> <<>>])

\* The router mounts PendingChats: the effect calls fetchPendingChats().
MountPending ==
  /\ page = "none"
  /\ page' = "pending"
  /\ fetchPendingChats
  /\ UNCHANGED <<envVars, messages, posts, chats, selectedChat, loadingMessages,
                 lastChatsRefreshRef, msgFetches, obsVars>>
  /\ UNCHANGED nonActVars

\* GET /api/admin/chats/pending on the server
SrvListPending(k) ==
  /\ page = "pending"
  /\ k \in DOMAIN listFetches /\ listFetches[k].st = "sent"
  /\ listFetches' = [listFetches EXCEPT ![k] = [st |-> "ok", snap |-> SrvPendingChats(Sessions)]]
  /\ UNCHANGED <<envVars, pageVars, chats, selectedChat, loadingChats,
                 loadingMessages, lastChatsRefreshRef, msgFetches, obsVars>>
  /\ UNCHANGED nonActVars

\* fetchPendingChats: the response arrives.
PendFetchChatsResponse(k) ==
  /\ page = "pending"
  /\ k \in DOMAIN listFetches /\ listFetches[k].st = "ok"
  /\ chats' = listFetches[k].snap
  /\ loadingChats' = FALSE
  /\ listFetches' = RemoveAt(listFetches, k)
  /\ UNCHANGED <<envVars, pageVars, selectedChat, loadingMessages,
                 lastChatsRefreshRef, msgFetches, obsVars>>
  /\ UNCHANGED nonActVars

\* fetchPendingChats: apiCall throws.
PendFetchChatsFail(k) ==
  /\ page = "pending"
  /\ k \in DOMAIN listFetches /\ listFetches[k].st = "sent"
  /\ loadingChats' = FALSE
  /\ listFetches' = RemoveAt(listFetches, k)
  /\ UNCHANGED <<envVars, pageVars, chats, selectedChat, loadingMessages,
                 lastChatsRefreshRef, msgFetches, obsVars>>
  /\ UNCHANGED nonActVars

\* onClick of the list entry of chat sid: setSelectedChat(chat), and the
\* effect on selectedChat calls fetchMessages(selectedChat.id).
PendSelectChat(sid) ==
  /\ page = "pending"
  /\ sid \in ChatIds(chats)
  /\ sid # selectedChat
  /\ BagCardinality(msgFetches) < MaxMsgFetches
  /\ selectedChat' = sid
  /\ loadingMessages' = TRUE
  /\ msgFetches' = Put(msgFetches, [sid |-> sid, st |-> "sent", snap |-> {}])
  /\ UNCHANGED <<envVars, pageVars, chats, loadingChats, lastChatsRefreshRef,
                 listFetches, obsVars>>
  /\ UNCHANGED nonActVars

\* GET /api/chats/messages/:id on the server, asked by PendingChats
SrvListPendingMessages(r) ==
  /\ page = "pending"
  /\ BagIn(r, msgFetches) /\ r.st = "sent"
  /\ msgFetches' = Put(Take(msgFetches, r),
                       [r EXCEPT !.st = "ok", !.snap = Snapshot(r.sid)])
  /\ UNCHANGED <<envVars, pageVars, chats, selectedChat, loadingChats,
                 loadingMessages, lastChatsRefreshRef, listFetches, obsVars>>
  /\ UNCHANGED nonActVars

\* PendingChats.fetchMessages: the response arrives.
PendFetchMessagesResponse(r) ==
  /\ page = "pending"
  /\ BagIn(r, msgFetches) /\ r.st = "ok"
  /\ messages' = ActiveSortMessages([k \in DOMAIN ServerOrder(r.snap) |->
                   ActiveMapApiMessage(ServerOrder(r.snap)[k])])
  /\ loadingMessages' = FALSE
  /\ msgFetches' = Take(msgFetches, r)
  /\ UNCHANGED <<envVars, page, posts, chats, selectedChat, loadingChats,
                 lastChatsRefreshRef, listFetches, obsVars>>
  /\ UNCHANGED nonActVars

\* The handler PendingChats gives to useWebSocket.
PendOnWsMessage(payload) ==
  /\ page = "pending"
  /\ Len(listFetches) < MaxListFetches
  /\ IF payload.type = "new_chat_session"
     THEN /\ fetchPendingChats
          /\ UNCHANGED <<selectedChat, messages>>
     ELSE IF payload.type = "session_status_changed" /\ payload.status # "pending"
     THEN /\ fetchPendingChats
          /\ IF selectedChat # 0 /\ selectedChat = payload.session_id
             THEN selectedChat' = 0 /\ messages' = <<>>
             ELSE UNCHANGED <<selectedChat, messages>>
     ELSE UNCHANGED <<loadingChats, listFetches, selectedChat, messages>>
  /\ UNCHANGED <<envVars, page, posts, chats, loadingMessages,
                 lastChatsRefreshRef, msgFetches, obsVars>>
  /\ UNCHANGED nonActVars

\* ActiveChats' useState and useRef initial values.
InitAct ==
  /\ chats = <<>>
  /\ selectedChat = 0
  /\ loadingChats = FALSE
  /\ loadingMessages = FALSE
  /\ lastChatsRefreshRef = 0
  /\ listFetches = <<>>
  /\ msgFetches = EmptyBag
  /\ resyncLog = <<>>
  /\ evicted = {}
  /\ unsynced = {}

\* The session list's steps: the mounted ActiveChats with no chat opened.
NextList ==
  \/ MountActive("active")
  \/ \E k \in DOMAIN listFetches : SrvListChats(k)
  \/ \E k \in DOMAIN listFetches : ActFetchChatsResponse(k)
  \/ \E k \in DOMAIN listFetches : ActFetchChatsFail(k)
  \/ \E payload \in NewMessageEvents \cup UnreadEvents \cup StatusEvents
                       \cup NewSessionEvents :
       ActOnWsMessage(payload)
  \/ Tick
  \/ \E i \in MsgIds : SrvNewMessage(i)
  \/ \E s \in Sessions, status \in {"agent", "pending"} : SrvSetStatus(s, status)

\* The session list's requests: the mount's, those of a filter change and
\* those ensureChatVisible makes for an unread_count_updated event.
NextListFilter ==
  \/ MountActive("active")
  \/ ActSetFilter
  \/ \E k \in DOMAIN listFetches : SrvListChats(k)
  \/ \E k \in DOMAIN listFetches : ActFetchChatsResponse(k)
  \/ \E k \in DOMAIN listFetches : ActFetchChatsFail(k)
  \/ \E payload \in UnreadEvents : ActOnWsMessage(payload)
  \/ Tick
  \/ \E s \in Sessions, status \in {"agent", "pending"} : SrvSetStatus(s, status)

\* The timeline's steps: a mounted page (CustomerChat, or ActiveChats with
\* its chats opened), its requests and the messages pushed to it.
NextTimeline ==
  \/ MountCustomer
  \/ CustInitServe
  \/ CustInitResponse
  \/ CustInitFail
  \/ \E payload \in NewMessageEvents \cup {SessionCompletedEvent(sid) : sid \in Sessions} :
       CustOnWsMessage(payload)
  \/ \E hasText \in BOOLEAN : CustHandleSend(hasText)
  \/ \E r \in BagToSet(posts) : CustPostResponse(r)
  \/ \E r \in BagToSet(posts) : CustPostFail(r)
  \/ \E p \in ActivePages : MountActive(p)
  \/ \E k \in DOMAIN listFetches : SrvListChats(k)
  \/ \E k \in DOMAIN listFetches : ActFetchChatsResponse(k)
  \/ \E sid \in Sessions : ActSelectChat(sid)
  \/ \E r \in BagToSet(msgFetches) : SrvListMessages(r)
  \/ \E r \in BagToSet(msgFetches) : ActFetchMessagesResponse(r)
  \/ \E r \in BagToSet(msgFetches) : ActFetchMessagesFail(r)
  \/ \E hasText \in BOOLEAN : ActHandleSendMessage(hasText)
  \/ \E r \in BagToSet(posts) : ActPostResponse(r)
  \/ \E r \in BagToSet(posts) : ActPostFail(r)
  \/ \E payload \in NewMessageEvents : ActOnWsMessage(payload)
  \/ \E i \in MsgIds : SrvNewMessage(i)
  \/ \E r \in BagToSet(posts), i \in MsgIds : SrvPostMessage(r, i)

\* The timelines on a larger fixture: messages 1..MaxOrderMsgs, some with equal
\* created_at from different senders; loads and pushes only.
NextOrder ==
  \/ MountCustomer
  \/ CustInitServe
  \/ CustInitResponse
  \/ \E payload \in NewMessageEvents : CustOnWsMessage(payload)
  \/ \E p \in ActivePages : MountActive(p)
  \/ \E k \in DOMAIN listFetches : SrvListChats(k)
  \/ \E k \in DOMAIN listFetches : ActFetchChatsResponse(k)
  \/ \E sid \in Sessions : ActSelectChat(sid)
  \/ \E r \in BagToSet(msgFetches) : SrvListMessages(r)
  \/ \E r \in BagToSet(msgFetches) : ActFetchMessagesResponse(r)
  \/ \E payload \in NewMessageEvents : ActOnWsMessage(payload)
  \/ \E i \in 1..MaxOrderMsgs : SrvNewMessage(i)

\* The pending list's steps: the mounted PendingChats, its requests, the
\* events pushed to it and the server moving sessions on.
NextPending ==
  \/ MountPending
  \/ \E k \in DOMAIN listFetches : SrvListPending(k)
  \/ \E k \in DOMAIN listFetches : PendFetchChatsResponse(k)
  \/ \E k \in DOMAIN listFetches : PendFetchChatsFail(k)
  \/ \E sid \in Sessions : PendSelectChat(sid)
  \/ \E r \in BagToSet(msgFetches) : SrvListPendingMessages(r)
  \/ \E r \in BagToSet(msgFetches) : PendFetchMessagesResponse(r)
  \/ \E payload \in StatusEvents \cup PendingNewSessionEvents : PendOnWsMessage(payload)
  \/ \E i \in MsgIds : SrvNewMessage(i)
  \/ \E s \in Sessions, status \in {"agent", "pending"} : SrvSetStatus(s, status)

\* The closing messages in the customer's timeline.
ClosingMessages == {k \in DOMAIN messages : messages[k].id[1] = "system"}

\* The end of the customer's chat: session_completed events (a bounded number
\* of them at different times), the countdown and its clock, and sends.
NextCountdown ==
  \/ MountCustomer
  \/ CustInitServe
  \/ CustInitResponse
  \/ /\ Cardinality(ClosingMessages) < MaxCompleted
     /\ CustOnWsMessage(SessionCompletedEvent(CustomerSession))
  \/ \E hasText \in BOOLEAN : CustHandleSend(hasText)
  \/ \E r \in BagToSet(posts) : CustPostFail(r)
  \/ CustTick
  \/ LogoutTimerFires

InitEnv ==
  /\ now = NowStart
  /\ srvMsgs = {}
  /\ srvSess = [s \in Sessions |-> "ai"]

\* CustomerChat's useState initial values.
InitCust ==
  /\ sessionId = 0
  /\ loading = TRUE
  /\ error = FALSE
  /\ chatEnded = FALSE
  /\ logoutCountdown = -1
  /\ logoutTimer = -1
  /\ initFetch = [st |-> "idle", snap |-> {}]

InitPage ==
  /\ page = "none"
  /\ messages = <<>>
  /\ posts = EmptyBag

Init == InitWs /\ InitEnv /\ InitPage /\ InitCust /\ InitAct

SpecWs == Init /\ [][NextWs]_vars

\* Time passes, and a timer that is due runs.
SpecWsFair ==
  /\ Init /\ [][NextWs]_vars
  /\ WF_vars(WsTick)
  /\ WF_vars(\E t \in timers : TimerFire(t))

SpecWsView == Init /\ [][NextWsView]_vars

SpecWsSend == Init /\ [][NextWsSend]_vars

SpecWsRerun == Init /\ [][NextWsRerun]_vars

SpecWsRecv == Init /\ [][NextWsRecv]_vars

SpecTimeline == Init /\ [][NextTimeline]_vars

SpecList == Init /\ [][NextList]_vars

SpecListFilter == Init /\ [][NextListFilter]_vars

SpecOrder == Init /\ [][NextOrder]_vars

SpecPending == Init /\ [][NextPending]_vars

SpecCountdown == Init /\ [][NextCountdown]_vars

\* Time passes, and a timer that is due runs.
SpecCountdownFair ==
  /\ Init /\ [][NextCountdown]_vars
  /\ WF_vars(CustTick)
  /\ WF_vars(LogoutTimerFires)

(***************************************************************************)
(* Timeline: properties                                                    *)
(***************************************************************************)
\* C1: in the timeline of every page a message with an earlier timestamp
\* comes before a message with a later one, whatever the order in which the
\* messages were inserted.
C1_TimelineOrdered ==
  \A a, b \in DOMAIN messages : a < b => messages[a].ts <= messages[b].ts

\* Merging the stored message i into the timeline twice gives what merging
\* it once gives, with the customer view's merge and with the admin view's.
MergeTwiceIsMergeOnce(i) ==
  LET c == CustomerMapApiMessage(ApiMessage(i))
      m == ActiveMapApiMessage(ApiMessage(i))
  IN /\ CustomerAddMessage(CustomerAddMessage(messages, c), c)
          = CustomerAddMessage(messages, c)
     /\ ActiveAddMessage(ActiveAddMessage(messages, m), m)
          = ActiveAddMessage(messages, m)

\* C2: ingesting a new_message event twice gives the timeline that ingesting
\* it once gives: no id is in the timeline twice, however often its message
\* was pushed, fetched or answered; and merging a message that the timeline
\* holds leaves the timeline as it is.
C2_IngestIdempotent ==
  /\ \A a, b \in DOMAIN messages : messages[a].id = messages[b].id => a = b
  /\ \A i \in srvMsgs :
       /\ MergeTwiceIsMergeOnce(i)
       /\ HasId(messages, ApiMessage(i).id) =>
            /\ CustomerAddMessage(messages, CustomerMapApiMessage(ApiMessage(i))) = messages
            /\ ActiveAddMessage(messages, ActiveMapApiMessage(ApiMessage(i))) = messages

\* The customer's timeline holds messages 2 and 1, both pushed (the snapshot
\* was empty): any further new_message for them is a duplicate.
C2_Witness ==
  /\ page = "customer"
  /\ initFetch.st = "done" /\ ~error
  /\ Len(messages) = 2
  /\ messages[1].id = <<"m", 2>> /\ messages[2].id = <<"m", 1>>

\* C5: the response to a message-list request for a chat that is no longer
\* the selected one is not applied to the timeline.
C5_StaleResponseDiscarded ==
  [][\A r \in BagToSet(msgFetches) :
       (ActFetchMessagesResponse(r) /\ r.sid # selectedChat)
         => messages' = messages]_vars

\* C6: a message pushed into the timeline while the snapshot request was
\* outstanding is still in the timeline once the snapshot has landed.
C6_PushSurvivesSnapshot ==
  [][CustInitResponse =>
       {id \in IdsOf(messages) : id[1] = "m"} \subseteq IdsOf(messages')]_vars

\* C10: the step that handles session_completed ends the chat and leaves the
\* timeline ending with a made-up message, all earlier messages kept; while
\* the chat is ended no send adds a request; the chat never stops being ended.
C10_CompletedLocksSend ==
  /\ [][\A sid \in Sessions :
          CustOnWsMessage(SessionCompletedEvent(sid))
            => /\ chatEnded'
               /\ logoutCountdown' = LogoutCountdownStart
               /\ IdsOf(messages) \subseteq IdsOf(messages')
               /\ messages' # <<>>
               /\ messages'[Len(messages')].id[1] = "system"]_vars
  /\ [][chatEnded => BagCardinality(posts') <= BagCardinality(posts)]_vars
  /\ [][chatEnded => chatEnded']_vars

\* The chat is ended, the timeline ends with the made-up message after a
\* server message, and the customer may call send (no request in flight).
C10_Witness ==
  /\ page = "customer"
  /\ chatEnded /\ sessionId # 0
  /\ Len(messages) >= 2
  /\ messages[Len(messages)].id[1] = "system"
  /\ posts = EmptyBag

\* C16: a new_message push for a session other than the one the view shows
\* leaves the timeline unchanged, in the customer view (once it knows its
\* session) and in the admin view.
C16_ForeignPushIgnored ==
  /\ [][\A e \in NewMessageEvents :
          (CustOnWsMessage(e) /\ sessionId # 0 /\ e.session_id # sessionId)
            => messages' = messages]_vars
  /\ [][\A e \in NewMessageEvents :
          (ActOnWsMessage(e) /\ e.session_id # selectedChat)
            => messages' = messages]_vars

\* C17: the admin view's timeline holds only messages of the selected
\* conversation, in every reachable state: selecting another conversation
\* discards the timeline of the previous one, and neither a push nor the
\* response to a send merges a message into another conversation's timeline.
C17_TimelineOfSelectedOnly ==
  page \in ActivePages =>
    \A k \in DOMAIN messages : SessionOf(messages[k].id[2]) = selectedChat

\* Who sent stored message i: the customer, a human agent, or the automation.
ClassRank(i) ==
  CASE SenderOf(i) = "user" -> 0 [] SenderOf(i) = "agent" -> 1 [] OTHER -> 2

\* C18: of two records of one timeline with equal createdAt, a customer-sent
\* one precedes a human-agent one, which precedes an automated one, and two
\* of the same sender class are in the order of their ids; in the customer
\* view and in every admin view.
C18_EqualTimestampOrder ==
  \A a, b \in DOMAIN messages :
    (a < b /\ messages[a].ts = messages[b].ts
           /\ messages[a].id[1] = "m" /\ messages[b].id[1] = "m")
      => LET i == messages[a].id[2]
             j == messages[b].id[2]
         IN \/ ClassRank(i) < ClassRank(j)
            \/ ClassRank(i) = ClassRank(j) /\ i < j

\* C19: when a snapshot fetch fails the timeline is what it was, the loading
\* flag is false again, and the failure is an error the caller gets: the
\* customer view's init sets its error state and leaves the session unset,
\* the admin view's fetchMessages rejects; and the fetch can be made again:
\* the admin view's list and selection are as before.
C19_FetchFailureKeepsTimeline ==
  /\ [][CustInitFail =>
          /\ messages' = messages
          /\ ~loading' /\ error'
          /\ sessionId' = sessionId]_vars
  /\ [][\A r \in BagToSet(msgFetches) :
          ActFetchMessagesFail(r) =>
            /\ messages' = messages
            /\ ~loadingMessages'
            /\ fetchMessagesThrows(messages).rejects
            /\ msgFetches' = Take(msgFetches, r)
            /\ chats' = chats /\ selectedChat' = selectedChat]_vars

\* C19 witness: the customer view's snapshot fetch has failed, and the
\* message a push had put into the timeline before is still there.
C19_Witness ==
  /\ page = "customer"
  /\ initFetch.st = "done" /\ sessionId = 0
  /\ error /\ ~loading
  /\ Len(messages) >= 1

(***************************************************************************)
(* Session list: properties                                                *)
(***************************************************************************)
\* C7: a session that a status event with a status other than 'active' has
\* removed from the list is not in the list, until the server makes it
\* active again.
C7_EvictedStaysAbsent == evicted \cap ChatIds(chats) = {}

\* C8: two list requests made by ensureChatVisible are at least 500 ms apart.
C8_ResyncDebounced ==
  Len(resyncLog) = 2 => resyncLog[2] - resyncLog[1] >= DebounceMs

\* ensureChatVisible made a list request less than 500 ms ago, the request
\* is over, and a session is still not in the list: events for it arrive
\* inside the window.
C8_Witness ==
  /\ Len(resyncLog) = 1
  /\ now - resyncLog[1] < DebounceMs
  /\ ~loadingChats /\ listFetches = <<>>
  /\ \E s \in Sessions : s \notin ChatIds(chats)

\* C9: no delta for a session that is active on the server and not in the
\* list is dropped: when one arrives, a list request is under way afterwards
\* that will bring the session into the list.
C9_DeltaTriggersResync == unsynced = {}

\* C20: when the active list processes a new_chat_session event for an
\* active session that is absent from its list, the session becomes visible:
\* after the handler it is in the list, or a list request is under way that
\* will bring it (one waits for the server, or an answer on its way holds it).
C20_NewSessionBecomesVisible ==
  page \in ActivePages =>
    \A s \in Sessions :
      (IsActive(srvSess[s]) /\ s \notin ChatIds(chats))
        => ENABLED (/\ ActOnWsMessage(NewSessionEvent(s))
                    /\ \/ s \in ChatIds(chats')
                       \/ \E k \in DOMAIN listFetches' :
                            \/ listFetches'[k].st = "sent"
                            \/ s \in ChatIds(listFetches'[k].snap))

\* C27: the preview and activity time of a listed session come from the
\* message with the greatest created_at received so far: handling a
\* new_message event never moves an entry's activity time back, so a message
\* delivered late or again never overwrites a newer preview.
C27_PreviewFromLatest ==
  [][\A e \in NewMessageEvents :
       ActOnWsMessage(e) =>
         \A k \in DOMAIN chats :
           chats'[k].timestamp >= chats[k].timestamp]_vars

\* C26: whenever a list request of the active view is outstanding the
\* loading flag is true (so ensureChatVisible makes no further request), and
\* the flag is false only when none is outstanding; also when two requests
\* overlap.
C26_LoadingWhileFetching ==
  (page \in ActivePages /\ listFetches # <<>>) => loadingChats

\* C21: when the pending list processes a session_status_changed event with
\* status pending for a session that is pending on the server and absent
\* from its list, the session gets into the list: after the handler a list
\* request is under way that will bring it (one waits for the server, or an
\* answer on its way holds it).
C21_PendingPickedUp ==
  page = "pending" =>
    \A e \in StatusEvents :
      (/\ e.status = "pending"
       /\ e.session_id \notin ChatIds(chats)
       /\ Len(listFetches) < MaxListFetches)
        => ENABLED (/\ PendOnWsMessage(e)
                    /\ \E k \in DOMAIN listFetches' :
                         \/ listFetches'[k].st = "sent"
                         \/ e.session_id \in ChatIds(listFetches'[k].snap))

\* C22: a new_message event for a session that is in the active list sets
\* that entry's last_message and timestamp from the message and changes
\* nothing else of the list: the entries are the same sessions in the same
\* order, that entry's status (handler mode) and unread count are kept, every
\* other entry is kept whole; and no list request is made for it.
C22_MessageUpdatesPreviewOnly ==
  [][\A e \in NewMessageEvents :
       (ActOnWsMessage(e) /\ e.session_id \in ChatIds(chats))
         => /\ Len(chats') = Len(chats)
            /\ \A k \in DOMAIN chats :
                 /\ chats'[k].id = chats[k].id
                 /\ chats'[k].status = chats[k].status
                 /\ chats'[k].unread = chats[k].unread
                 /\ chats[k].id = e.session_id =>
                      /\ chats'[k].last_message = e.msg
                      /\ chats'[k].timestamp = CreatedAtOf(e.msg)
                 /\ chats[k].id # e.session_id => chats'[k] = chats[k]
            /\ listFetches' = listFetches
            /\ loadingChats' = loadingChats]_vars

\* C22 witness: the list holds both sessions, and the entry of session 1 has
\* the preview and activity time of message 2 with no unread message: the
\* snapshot was taken before message 2 (the customer's) was stored, and the
\* new_message event for it set the preview and left the unread count.
C22_Witness ==
  /\ page = "active"
  /\ Len(chats) = 2
  /\ chats[1].id = 1 /\ chats[1].last_message = 2 /\ chats[1].timestamp = CreatedAtOf(2)
  /\ chats[1].unread = 0
  /\ chats[2].id = 2

\* C24: selecting a session sets its unread count to 0 in the list and in
\* the selected-session copy in the step of the click, while the request the
\* click makes is still unanswered and no list request is made; the list
\* holds the same sessions in the same order, the selected entry is otherwise
\* kept, and every other entry is kept whole.
C24_SelectClearsUnread ==
  [][\A sid \in Sessions :
       ActSelectChat(sid) =>
         LET copy == selectChat(chats, ChatOf(sid)).selectedChat
         IN /\ selectedChat' = sid
            /\ copy = [ChatOf(sid) EXCEPT !.unread = 0]
            /\ Len(chats') = Len(chats)
            /\ \A k \in DOMAIN chats :
                 /\ chats[k].id = sid => chats'[k] = [chats[k] EXCEPT !.unread = 0]
                 /\ chats[k].id # sid => chats'[k] = chats[k]
            /\ msgFetches' = Put(msgFetches, [sid |-> sid, st |-> "sent", snap |-> {}])
            /\ listFetches' = listFetches]_vars

\* C24 witness: session 1 is selected and its entry shows no unread message,
\* while the server counts the customer's message 2 as unread and the
\* request of the click is not answered yet.
C24_Witness ==
  /\ page = "active"
  /\ selectedChat = 1
  /\ ChatIds(chats) = {1, 2}
  /\ ChatOf(1).unread = 0 /\ ChatOf(1).last_message = 2
  /\ SrvUnread(1) >= 1
  /\ BagIn([sid |-> 1, st |-> "sent", snap |-> {}], msgFetches)

\* C29: a session_status_changed event that reports a status outside the
\* view's category (not active for the active view, not pending for the
\* pending view), for the selected session: in that step the selection is
\* cleared, the timeline is emptied and the session leaves the list; for any
\* other session: selection and timeline are as before.
C29_StatusChangeClearsSelection ==
  /\ [][\A e \in StatusEvents :
          (ActOnWsMessage(e) /\ e.status # "active") =>
            IF e.session_id = selectedChat
            THEN /\ selectedChat' = 0 /\ messages' = <<>>
                 /\ e.session_id \notin ChatIds(chats')
            ELSE selectedChat' = selectedChat /\ messages' = messages]_vars
  /\ [][\A e \in StatusEvents :
          (PendOnWsMessage(e) /\ e.status # "pending") =>
            IF e.session_id = selectedChat
            THEN /\ selectedChat' = 0 /\ messages' = <<>>
                 /\ e.session_id \notin ChatIds(chats')
            ELSE selectedChat' = selectedChat /\ messages' = messages]_vars

\* C30: push deltas create no entry of the active list: handling
\* new_message, unread_count_updated or session_status_changed adds no
\* session id to the list and never makes the list longer; no id is in the
\* list twice; and a session id gets into the list only in a step that
\* replaces the list by the answer to a list request.
C30_DeltasCreateNoEntries ==
  /\ [][\A e \in NewMessageEvents \cup UnreadEvents \cup StatusEvents :
          ActOnWsMessage(e) =>
            /\ ChatIds(chats') \subseteq ChatIds(chats)
            /\ Len(chats') <= Len(chats)]_vars
  /\ [](\A a, b \in DOMAIN chats : chats[a].id = chats[b].id => a = b)
  /\ [][~(ChatIds(chats') \subseteq ChatIds(chats)) =>
          \E k \in DOMAIN listFetches :
            /\ listFetches[k].st = "ok"
            /\ chats' = listFetches[k].snap
            /\ listFetches' = RemoveAt(listFetches, k)]_vars

\* C30 witness: the list came from a snapshot that held session 2 only; a
\* delta for session 1, active on the server again, was handled with no list
\* request made or under way, and session 1 is still not in the list.
C30_Witness ==
  /\ page = "active"
  /\ ChatIds(chats) = {2}
  /\ 1 \in unsynced
  /\ IsActive(srvSess[1])
  /\ listFetches = <<>>

(***************************************************************************)
(* End of the customer's chat: properties                                  *)
(***************************************************************************)
\* When the first session_completed event was handled: the timestamp of the
\* earliest closing message.
FirstCompletedAt ==
  LET k == CHOOSE x \in ClosingMessages :
             \A y \in ClosingMessages : messages[x].ts <= messages[y].ts
  IN messages[k].ts

\* The model's clock has stopped while the countdown was still running.
AtClockBound ==
  /\ now + CustTickMs > NowStart + MaxCustTicks * CustTickMs
  /\ logoutCountdown > 0

\* C23: after session_completed the forced logout (onLogout) is called only
\* in the step that takes the countdown from 1 to 0; the countdown is set to
\* 10 by the event and otherwise goes down by exactly 1 when its timer is
\* due, the timer is always set to one second and runs down only as time
\* passes (so the logout is never earlier than ten seconds after the first
\* session_completed); while the countdown runs the chat stays ended and
\* handleSend refuses; and with time passing and due timers firing the
\* logout is eventually called.
C23_LogoutAfterCountdown ==
  /\ [][page' = "login" =>
          /\ page = "customer" /\ chatEnded
          /\ logoutTimer = 0
          /\ logoutCountdown = 1 /\ logoutCountdown' = 0]_vars
  /\ [][logoutCountdown' # logoutCountdown =>
          \/ logoutCountdown' = LogoutCountdownStart /\ chatEnded'
          \/ /\ logoutCountdown' = logoutCountdown - 1
             /\ logoutTimer = 0 /\ chatEnded]_vars
  /\ [][logoutTimer' # logoutTimer =>
          \/ logoutTimer' = LogoutStepMs
          \/ logoutTimer' = -1 /\ page' = "login"
          \/ /\ 0 <= logoutTimer' /\ logoutTimer' < logoutTimer
             /\ now' - now >= logoutTimer - logoutTimer']_vars
  /\ [](page = "login" => chatEnded /\ logoutCountdown = 0)
  /\ [](logoutCountdown >= 0 => chatEnded /\ ~CustSendGuard(TRUE))
  /\ (chatEnded ~> (page = "login" \/ AtClockBound))

\* C23 witness: the countdown has run down and onLogout was called, ten
\* seconds after the one session_completed event, which the session's
\* snapshot had preceded.
C23_Witness ==
  /\ page = "login"
  /\ sessionId # 0 /\ chatEnded /\ logoutCountdown = 0
  /\ Cardinality(ClosingMessages) = 1
  /\ now - FirstCompletedAt = LogoutCountdownStart * LogoutStepMs

\* C28: handling session_completed again leaves the timeline as it is: after
\* any number of session_completed events the customer's timeline holds no
\* second closing message.
C28_OneClosingMessage ==
  page = "customer" => Cardinality(ClosingMessages) <= 1

====
